---- MODULE Spec2Model ----
(***************************************************************************)
(* TaskFlow (src/src/main.rs): a single-process, menu-driven task manager. *)
(* The state is the TaskManager struct, the two JSON records on disk and   *)
(* what the last operation did on the console and against GitHub.          *)
(***************************************************************************)
EXTENDS Integers, Sequences, FiniteSets, TLC

\* ------------------------------------------------------------------ bounds
\* add_task is offered while the Task Store has fewer than MaxTasks tasks.
MaxTasks == 2
\* add_repository is offered while the Configuration has fewer than MaxRepos.
MaxRepos == 2
\* GitHub answers a created issue with a number in 1..MaxIssue.
MaxIssue == 1
\* The board is also checked on every Task Store of up to MaxBoardTasks tasks.
MaxBoardTasks == 3

\* ------------------------------------------------------------ Option<T>
None == <<>>
Some(x) == <<x>>
IsSome(o) == o # <<>>
Unwrap(o) == o[1]

\* ------------------------------------------------------------ enums
\* enum Status, in declaration order (also the board's column order).
Status == <<"Todo", "InProgress", "NeedsHelp", "Done">>
StatusSet == {Status[i] : i \in 1..4}

\* add_task: match priority_idx { 0 => Low, 1 => Medium, _ => High }
PriorityOfIdx(priority_idx) ==
    CASE priority_idx = 0 -> "Low"
      [] priority_idx = 1 -> "Medium"
      [] OTHER -> "High"

\* StatusOfIdx with the last arm repeating the one before it: Done is never chosen.
StatusOfIdx_NoDone(status_idx) ==
    CASE status_idx = 0 -> "Todo"
      [] status_idx = 1 -> "InProgress"
      [] OTHER -> "NeedsHelp"

\* update_task: match status_idx { 0 => Todo, 1 => InProgress, 2 => NeedsHelp, _ => Done }
StatusOfIdx(status_idx) ==
    CASE status_idx = 0 -> "Todo"
      [] status_idx = 1 -> "InProgress"
      [] status_idx = 2 -> "NeedsHelp"
      [] OTHER -> "Done"

\* ------------------------------------------------------------ user inputs
\* What the prompts of add_task can return (title, description, priority, due date).
TaskInputs ==
    { [title |-> "Write spec", description |-> "", priority_idx |-> 1, due_date |-> "tomorrow"] }

\* Local::now().format("%B %d, %Y")
Dates == {"November 05, 2026"}

\* What the prompts of add_repository can return; display_name defaults to name.
RepoInputs ==
    { [owner |-> "joe", name |-> "task-flow", display_name |-> "task-flow"],
      [owner |-> "joe", name |-> "notes", display_name |-> "Notes"] }

Tokens == {"ghp_token"}

\* ------------------------------------------------------------ the outside world
\* fs::write: done, refused before the file is touched, or failed after truncating it.
WriteOutcomes == {"ok", "err", "partial"}

\* The answer of issues().create().send(): Err, or Ok(issue) with issue.number.
IssueResponses ==
    {[ok |-> FALSE, number |-> 0]} \cup {[ok |-> TRUE, number |-> n] : n \in 1..MaxIssue}

\* ------------------------------------------------------------ structs
DefaultConfig == [github_token |-> None, repositories |-> <<>>]

\* NewTask with a constant id.
NewTask_IdZero(ts, input, now) ==
    [ id |-> 0,
      title |-> input.title,
      description |-> input.description,
      priority |-> PriorityOfIdx(input.priority_idx),
      status |-> "Todo",
      due_date |-> input.due_date,
      github_issue_number |-> None,
      created_at |-> now ]

\* NewTask with ids counted from one.
NewTask_IdFromOne(ts, input, now) ==
    [ id |-> Len(ts) + 1,
      title |-> input.title,
      description |-> input.description,
      priority |-> PriorityOfIdx(input.priority_idx),
      status |-> "Todo",
      due_date |-> input.due_date,
      github_issue_number |-> None,
      created_at |-> now ]

\* The Task literal of add_task: id is the current length, status Todo, no issue number.
NewTask(ts, input, now) ==
    [ id |-> Len(ts),
      title |-> input.title,
      description |-> input.description,
      priority |-> PriorityOfIdx(input.priority_idx),
      status |-> "Todo",
      due_date |-> input.due_date,
      github_issue_number |-> None,
      created_at |-> now ]

\* ------------------------------------------------------------ files
\* A record on disk: missing, unparseable, or the JSON of a value.
MissingTasksFile == [state |-> "missing", data |-> <<>>]
CorruptTasksFile == [state |-> "corrupt", data |-> <<>>]
MissingConfigFile == [state |-> "missing", data |-> DefaultConfig]
CorruptConfigFile == [state |-> "corrupt", data |-> DefaultConfig]

\* serde_json::to_string_pretty
to_string_pretty(value) == [state |-> "json", data |-> value]

\* fs::write(path, data) with outcome w
fs_write(file, data, w, corrupt) ==
    CASE w = "ok" -> data
      [] w = "partial" -> corrupt
      [] OTHER -> file

\* The Result of a save: Ok(()) only if the write was done.
ResultOf(w) == IF w = "ok" THEN "Ok" ELSE "Err"

\* save_tasks that serialises the store and reports Ok without writing the file.
save_tasks_NoWrite(file, ts, w) == [file |-> file, result |-> ResultOf(w)]

\* save_tasks(&self) -> Result
save_tasks(file, ts, w) ==
    [ file |-> fs_write(file, to_string_pretty(ts), w, CorruptTasksFile),
      result |-> ResultOf(w) ]

\* save_config(&self) -> Result
save_config(file, cfg, w) ==
    [ file |-> fs_write(file, to_string_pretty(cfg), w, CorruptConfigFile),
      result |-> ResultOf(w) ]

\* Expect that swallows the error: the caller goes on as after Ok.
Expect_Swallow(result) == "continue"

\* .expect(msg) on a Result: the value on Ok, a panic on Err.
Expect(result) == IF result = "Ok" THEN "continue" ELSE "panic"

\* load_tasks that answers Ok with the task it could read before the parse error.
load_tasks_KeepsParsedPrefix(file) ==
    CASE file.state = "missing" -> [result |-> "Ok", tasks |-> <<>>]
      [] file.state = "json" -> [result |-> "Ok", tasks |-> file.data]
      [] OTHER -> [result |-> "Ok",
                   tasks |-> <<NewTask(<<>>, [title |-> "Write spec", description |-> "",
                                              priority_idx |-> 1, due_date |-> "tomorrow"],
                                       "November 05, 2026")>>]

\* load_tasks(path) -> Result<Vec<Task>>
load_tasks(file) ==
    CASE file.state = "missing" -> [result |-> "Ok", tasks |-> <<>>]
      [] file.state = "json" -> [result |-> "Ok", tasks |-> file.data]
      [] OTHER -> [result |-> "Err", tasks |-> <<>>]

\* load_tasks(..).unwrap_or_else(|_| Vec::new())
unwrap_or_else_empty(loaded) == IF loaded.result = "Ok" THEN loaded.tasks ELSE <<>>

\* load_or_create_config(path): parse the record (panic if it does not parse), or
\* write the default (panic if the write fails).
load_or_create_config(file, w) ==
    CASE file.state = "json" ->
            [pc |-> "loaded", config |-> file.data, file |-> file, write |-> "none"]
      [] file.state = "corrupt" ->
            [pc |-> "panicked", config |-> DefaultConfig, file |-> file, write |-> "none"]
      [] OTHER ->
            [ pc |-> IF Expect(ResultOf(w)) = "panic" THEN "panicked" ELSE "loaded",
              config |-> DefaultConfig,
              file |-> fs_write(file, to_string_pretty(DefaultConfig), w, CorruptConfigFile),
              write |-> w ]

\* setup_github(config): a client only with a token and a successful build().
setup_github(cfg, build_ok) ==
    IF IsSome(cfg.github_token) /\ build_ok THEN Some("octocrab") ELSE None

\* ------------------------------------------------------------ state
VARIABLES
    tasks,         \* TaskManager.tasks
    config,        \* TaskManager.config
    github,        \* TaskManager.github
    current_repo,  \* TaskManager.current_repo
    tasks_file,    \* tasks.json
    config_file,   \* config.json
    pc,            \* where the process is
    last,          \* what the last operation was and did outside the struct
    board          \* what show_kanban_board printed last

vars == <<tasks, config, github, current_repo, tasks_file, config_file, pc, last, board>>

NoBoard == <<>>

\* What an operation did: its name, the answer the user gave to its Select (0 where
\* there is none, -1 where "Create GitHub issue?" was not asked), the remote call it
\* made ("none" if none) and its answer, the disk write it made, and the position it
\* acted on. calls is the number of requests sent to GitHub: every operation that
\* reaches a call site sends one request (add_task sets it from its own count).
Did(op, choice, remote, issue, write, idx) ==
    [ op |-> op, choice |-> choice, remote |-> remote, issue |-> issue,
      write |-> write, idx |-> idx, calls |-> IF remote = "none" THEN 0 ELSE 1 ]

\* Records the program can have left on disk in earlier sessions.
InitialConfigFiles ==
    { MissingConfigFile, CorruptConfigFile,
      to_string_pretty(DefaultConfig),
      to_string_pretty([github_token |-> Some("ghp_token"), repositories |-> <<>>]),
      to_string_pretty([github_token |-> Some("ghp_token"),
                        repositories |-> <<[owner |-> "joe", name |-> "task-flow",
                                            display_name |-> "task-flow"]>>]) }

InitialTasksFiles ==
    { MissingTasksFile, CorruptTasksFile,
      to_string_pretty(<<[NewTask(<<>>, [title |-> "Write spec", description |-> "",
                                         priority_idx |-> 1, due_date |-> "tomorrow"],
                                  "November 05, 2026") EXCEPT !.status = "Done"]>>) }

\* TaskManager::new up to the struct literal: load the configuration, connect,
\* load the tasks.
Init ==
    \E cf \in InitialConfigFiles, tf \in InitialTasksFiles,
       w \in WriteOutcomes, build_ok \in BOOLEAN :
        LET lc == load_or_create_config(cf, w) IN
        /\ config_file = lc.file
        /\ config = lc.config
        /\ tasks_file = tf
        /\ github = IF lc.pc = "panicked" THEN None ELSE setup_github(lc.config, build_ok)
        /\ tasks = IF lc.pc = "panicked" THEN <<>> ELSE unwrap_or_else_empty(load_tasks(tf))
        /\ current_repo = None
        /\ pc = IF lc.pc = "panicked" THEN "panicked"
                ELSE IF lc.config.repositories = <<>> THEN "first_time_setup"
                ELSE "select_repository"
        /\ last = Did("new", 0, "none", None, lc.write, 0)
        /\ board = NoBoard

\* ------------------------------------------------------------ operations
\* A panic unwinds main: the process ends and the TaskManager is dropped; only the
\* records on disk remain.
Panic ==
    /\ pc' = "panicked"
    /\ tasks' = <<>>
    /\ config' = DefaultConfig
    /\ github' = None
    /\ current_repo' = None

\* add_repository that pushes and saves whatever the verification answered.
add_repository_Unverified(cfg, file, gh, repo, verified, w) ==
    IF IsSome(gh)
    THEN LET pushed == [cfg EXCEPT !.repositories = Append(@, repo)]
             saved == save_config(file, pushed, w)
         IN [ config |-> pushed, file |-> saved.file, result |-> saved.result,
              remote |-> IF verified THEN "ok" ELSE "err", write |-> w ]
    ELSE [ config |-> cfg, file |-> file, result |-> "Ok",
           remote |-> "none", write |-> "none" ]

\* add_repository with a path that adds the repository when there is no client.
add_repository_WithoutClient(cfg, file, gh, repo, verified, w) ==
    IF IsSome(gh) /\ ~verified
    THEN [ config |-> cfg, file |-> file, result |-> "Ok",
           remote |-> "err", write |-> "none" ]
    ELSE LET pushed == [cfg EXCEPT !.repositories = Append(@, repo)]
             saved == save_config(file, pushed, w)
         IN [ config |-> pushed, file |-> saved.file, result |-> saved.result,
              remote |-> IF IsSome(gh) THEN "ok" ELSE "none", write |-> w ]

\* add_repository that pushes the verified repository and returns without saving.
add_repository_Unsaved(cfg, file, gh, repo, verified, w) ==
    IF IsSome(gh)
    THEN IF verified
         THEN [ config |-> [cfg EXCEPT !.repositories = Append(@, repo)], file |-> file,
                result |-> "Ok", remote |-> "ok", write |-> "none" ]
         ELSE [ config |-> cfg, file |-> file, result |-> "Ok",
                remote |-> "err", write |-> "none" ]
    ELSE [ config |-> cfg, file |-> file, result |-> "Ok",
           remote |-> "none", write |-> "none" ]

\* add_repository on (cfg, file, gh): verify, then push and save. Returns the new
\* configuration and record, and what happened.
add_repository(cfg, file, gh, repo, verified, w) ==
    IF IsSome(gh)
    THEN IF verified
         THEN LET pushed == [cfg EXCEPT !.repositories = Append(@, repo)]
                  saved == save_config(file, pushed, w)
              IN [ config |-> pushed, file |-> saved.file, result |-> saved.result,
                   remote |-> "ok", write |-> w ]
         ELSE [ config |-> cfg, file |-> file, result |-> "Ok",
                remote |-> "err", write |-> "none" ]
    ELSE [ config |-> cfg, file |-> file, result |-> "Ok",
           remote |-> "none", write |-> "none" ]

\* first_time_setup: ask the token, save it, connect, add_repository.
FirstTimeSetup ==
    /\ pc = "first_time_setup"
    /\ \E token \in Tokens, w1 \in WriteOutcomes, build_ok \in BOOLEAN,
          repo \in RepoInputs, verified \in BOOLEAN, w2 \in WriteOutcomes :
        LET with_token == [config EXCEPT !.github_token = Some(token)]
            saved == save_config(config_file, with_token, w1)
            client == setup_github(with_token, build_ok)
            added == add_repository(with_token, saved.file, client, repo, verified, w2)
        IN IF Expect(saved.result) = "panic"
           THEN /\ Panic
                /\ config_file' = saved.file
                /\ last' = Did("first_time_setup", 0, "none", None, w1, 0)
           ELSE /\ config_file' = added.file
                /\ last' = Did("first_time_setup", 0, added.remote, None,
                               IF added.write = "none" THEN w1 ELSE added.write, 0)
                /\ IF Expect(added.result) = "panic"
                   THEN Panic
                   ELSE /\ config' = added.config
                        /\ github' = client
                        /\ pc' = "select_repository"
                        /\ UNCHANGED <<tasks, current_repo>>
    /\ board' = NoBoard
    /\ UNCHANGED tasks_file

\* The menu's "Add new repository".
AddRepository ==
    /\ pc = "menu"
    /\ Len(config.repositories) < MaxRepos
    /\ \E repo \in RepoInputs, verified \in BOOLEAN, w \in WriteOutcomes :
        LET added == add_repository(config, config_file, github, repo, verified, w) IN
        /\ config_file' = added.file
        /\ last' = Did("add_repository", 0, added.remote, None, added.write, 0)
        /\ IF Expect(added.result) = "panic"
           THEN Panic
           ELSE /\ config' = added.config
                /\ UNCHANGED <<tasks, github, current_repo, pc>>
    /\ board' = NoBoard
    /\ UNCHANGED tasks_file

\* chosen_repository that ignores the answer and takes the Select's default(0).
chosen_repository_Default(repositories, repo_idx) == Some(repositories[1])

\* select_repository, line 201: Some(self.config.repositories[repo_idx].clone())
chosen_repository(repositories, repo_idx) == Some(repositories[repo_idx])

\* select_repository, at startup and as the menu's "Switch repository": with no
\* repository it calls add_repository and returns; otherwise it sets current_repo
\* to a clone of the chosen entry.
SelectRepository ==
    /\ pc \in {"select_repository", "menu"}
    /\ IF config.repositories = <<>>
       THEN \E repo \in RepoInputs, verified \in BOOLEAN, w \in WriteOutcomes :
              LET added == add_repository(config, config_file, github, repo, verified, w) IN
              /\ config_file' = added.file
              /\ last' = Did("select_repository", 0, added.remote, None, added.write, 0)
              /\ IF Expect(added.result) = "panic"
                 THEN Panic
                 ELSE /\ config' = added.config
                      /\ pc' = "menu"
                      /\ UNCHANGED <<tasks, github, current_repo>>
       ELSE \E repo_idx \in 1..Len(config.repositories) :
              /\ current_repo' = chosen_repository(config.repositories, repo_idx)
              /\ pc' = "menu"
              /\ last' = Did("select_repository", 0, "none", None, "none", repo_idx)
              /\ UNCHANGED <<tasks, config, config_file, github>>
    /\ board' = NoBoard
    /\ UNCHANGED tasks_file

\* after_create_issue that stores a number in both arms: 0 when the call failed.
after_create_issue_Sentinel(task, response) ==
    [task EXCEPT !.github_issue_number = Some(response.number)]

\* add_task, lines 250-272: what the answer of create(..).send() does to the task.
\* Ok(issue) prints issue.number and Err prints a warning; `task` is not touched.
after_create_issue(task, response) == task

\* create_issue_sends that sends the request again when the first answer is Err.
create_issue_sends_Retry(asked, create_issue, response) ==
    IF asked /\ create_issue = 0 THEN (IF response.ok THEN 1 ELSE 2) ELSE 0

\* add_task, lines 250-263: how many times create(..).send() runs. Once, inside
\* `if let (Some(github), Some(repo))` (asked) and `Select == 0` (create_issue = 0);
\* there is no loop around the match.
create_issue_sends(asked, create_issue, response) ==
    IF asked /\ create_issue = 0 THEN 1 ELSE 0

\* add_task
AddTask ==
    /\ pc = "menu"
    /\ Len(tasks) < MaxTasks
    /\ \E input \in TaskInputs, now \in Dates, w \in WriteOutcomes,
          create_issue \in (IF IsSome(github) /\ IsSome(current_repo) THEN {0, 1} ELSE {1}),
          response \in IssueResponses :
        LET task == NewTask(tasks, input, now)
            asked == IsSome(github) /\ IsSome(current_repo)
            sends == create_issue_sends(asked, create_issue, response)
            called == sends > 0
            final == IF called THEN after_create_issue(task, response) ELSE task
            saved == save_tasks(tasks_file, Append(tasks, final), w)
        IN /\ tasks_file' = saved.file
           /\ IF Expect(saved.result) = "panic"
              THEN Panic
              ELSE /\ tasks' = Append(tasks, final)
                   /\ UNCHANGED <<config, github, current_repo, pc>>
           /\ last' = [Did("add_task",
                           IF asked THEN create_issue ELSE -1,
                           IF ~called THEN "none" ELSE IF response.ok THEN "ok" ELSE "err",
                           IF called /\ response.ok THEN Some(response.number) ELSE None,
                           w, Len(tasks) + 1)
                        EXCEPT !.calls = sends]
    /\ board' = NoBoard
    /\ UNCHANGED config_file

\* list_tasks
ListTasks ==
    /\ pc = "menu"
    /\ last' = Did("list_tasks", 0, "none", None, "none", 0)
    /\ board' = NoBoard
    /\ UNCHANGED <<tasks, tasks_file, config, config_file, github, current_repo, pc>>

\* update_status that moves the status status_idx places on from where it is.
update_status_Relative(ts, task_idx, status_idx) ==
    LET at == CHOOSE i \in 0..3 : StatusOfIdx(i) = ts[task_idx].status
    IN [ts EXCEPT ![task_idx].status = StatusOfIdx((at + status_idx) % 4)]

\* update_status that gives the chosen status to every task of the store.
update_status_AllTasks(ts, task_idx, status_idx) ==
    [i \in 1..Len(ts) |-> [ts[i] EXCEPT !.status = StatusOfIdx(status_idx)]]

\* update_task, lines 357-362: self.tasks[task_idx].status = match status_idx {..}
update_status(ts, task_idx, status_idx) ==
    [ts EXCEPT ![task_idx].status = StatusOfIdx(status_idx)]

\* update_task
UpdateTask ==
    /\ pc = "menu"
    /\ IF tasks = <<>>
       THEN /\ last' = Did("update_task", 0, "none", None, "none", 0)
            /\ UNCHANGED <<tasks, tasks_file, config, github, current_repo, pc>>
       ELSE \E task_idx \in 1..Len(tasks), status_idx \in 0..3, w \in WriteOutcomes :
              LET updated == update_status(tasks, task_idx, status_idx)
                  saved == save_tasks(tasks_file, updated, w)
              IN /\ tasks_file' = saved.file
                 /\ last' = Did("update_task", status_idx, "none", None, w, task_idx)
                 /\ IF Expect(saved.result) = "panic"
                    THEN Panic
                    ELSE /\ tasks' = updated
                         /\ UNCHANGED <<config, github, current_repo, pc>>
    /\ board' = NoBoard
    /\ UNCHANGED config_file

\* show_kanban_board: self.tasks.iter().filter(|t| t.status == *status)
Column(ts, status) == SelectSeq(ts, LAMBDA t : t.status = status)

\* Nth counting from the wrong end of the off-by-one: the first task is skipped.
Nth_OffByOne(column, i) == IF i < Len(column) THEN Some(column[i + 1]) ELSE None

\* show_kanban_board: .nth(i) of a column, None past its end.
Nth(column, i) == IF i <= Len(column) THEN Some(column[i]) ELSE None

\* show_kanban_board: the largest column's length.
MaxOf(S) == CHOOSE m \in S : \A n \in S : n <= m
max_tasks(ts) == MaxOf({Len(Column(ts, Status[c])) : c \in 1..4})

\* show_kanban_board: max_tasks rows of four cells, row i holding the i-th task of
\* each column (or nothing).
KanbanBoard(ts) ==
    [i \in 1..max_tasks(ts) |-> [c \in 1..4 |-> Nth(Column(ts, Status[c]), i)]]

\* visualize_project, choice 0
ShowKanbanBoard ==
    /\ pc = "menu"
    /\ board' = KanbanBoard(tasks)
    /\ last' = Did("show_kanban_board", 0, "none", None, "none", 0)
    /\ UNCHANGED <<tasks, tasks_file, config, config_file, github, current_repo, pc>>

\* visualize_project, choice 1: open_project_in_browser
OpenProjectInBrowser ==
    /\ pc = "menu"
    /\ last' = Did("open_project_in_browser", 0, "none", None, "none", 0)
    /\ board' = NoBoard
    /\ UNCHANGED <<tasks, tasks_file, config, config_file, github, current_repo, pc>>

\* create_github_project that also records the tracking issue as a local task.
CreateGithubProject_TracksLocally ==
    /\ pc = "menu"
    /\ \E response \in IssueResponses :
        LET called == IsSome(github) /\ IsSome(current_repo) IN
        /\ last' = Did("create_github_project", 0,
                       IF ~called THEN "none" ELSE IF response.ok THEN "ok" ELSE "err",
                       None, "none", 0)
        /\ tasks' = IF called /\ response.ok
                    THEN Append(tasks, NewTask(tasks, [title |-> "Setup", description |-> "",
                                                       priority_idx |-> 0, due_date |-> ""],
                                               "November 05, 2026"))
                    ELSE tasks
    /\ board' = NoBoard
    /\ UNCHANGED <<tasks_file, config, config_file, github, current_repo, pc>>

\* visualize_project, choice 2: create_github_project
CreateGithubProject ==
    /\ pc = "menu"
    /\ \E response \in IssueResponses :
        LET called == IsSome(github) /\ IsSome(current_repo) IN
        last' = Did("create_github_project", 0,
                    IF ~called THEN "none" ELSE IF response.ok THEN "ok" ELSE "err",
                    None, "none", 0)
    /\ board' = NoBoard
    /\ UNCHANGED <<tasks, tasks_file, config, config_file, github, current_repo, pc>>

\* visualize_project, choice 3: back
VisualizeBack ==
    /\ pc = "menu"
    /\ last' = Did("visualize_back", 0, "none", None, "none", 0)
    /\ board' = NoBoard
    /\ UNCHANGED <<tasks, tasks_file, config, config_file, github, current_repo, pc>>

\* main_menu: Exit breaks the loop.
Exit ==
    /\ pc = "menu"
    /\ pc' = "exited"
    /\ last' = Did("exit", 0, "none", None, "none", 0)
    /\ board' = NoBoard
    /\ UNCHANGED <<tasks, tasks_file, config, config_file, github, current_repo>>

Next ==
    \/ FirstTimeSetup
    \/ SelectRepository
    \/ AddRepository
    \/ AddTask
    \/ ListTasks
    \/ UpdateTask
    \/ ShowKanbanBoard
    \/ OpenProjectInBrowser
    \/ CreateGithubProject
    \/ VisualizeBack
    \/ Exit

Spec == Init /\ [][Next]_vars

\* ------------------------------------------------------------ the board alone
\* show_kanban_board is a function of self.tasks: it is also run on every Task Store
\* of up to MaxBoardTasks tasks that add_task and update_task can build from these
\* prompt answers, in a session at the menu with a repository selected.
BoardInputs ==
    TaskInputs \cup
    { [title |-> "Fix bug", description |-> "crash on exit", priority_idx |-> 2,
       due_date |-> "next week"] }

\* The task add_task builds at position i, after update_task has set its status.
TaskAt(i, input, status) ==
    [NewTask([k \in 1..(i - 1) |-> k], input, "November 05, 2026") EXCEPT !.status = status]

BoardStores ==
    UNION { { [i \in 1..n |-> TaskAt(i, f[i][1], f[i][2])] :
                f \in [1..n -> BoardInputs \X StatusSet] } : n \in 0..MaxBoardTasks }

InitBoard ==
    \E ts \in BoardStores :
        LET repo == [owner |-> "joe", name |-> "task-flow", display_name |-> "task-flow"]
            cfg == [github_token |-> Some("ghp_token"), repositories |-> <<repo>>]
        IN /\ tasks = ts
           /\ tasks_file = to_string_pretty(ts)
           /\ config = cfg
           /\ config_file = to_string_pretty(cfg)
           /\ github = setup_github(cfg, TRUE)
           /\ current_repo = Some(repo)
           /\ pc = "menu"
           /\ last = Did("select_repository", 0, "none", None, "none", 1)
           /\ board = NoBoard

NextBoard == ShowKanbanBoard

SpecBoard == InitBoard /\ [][NextBoard]_vars

\* ------------------------------------------------------------ properties
Range(seq) == {seq[i] : i \in 1..Len(seq)}
Count(seq, x) == Cardinality({i \in 1..Len(seq) : seq[i] = x})
WriteFailed(w) == w \in {"err", "partial"}

\* The tasks the board shows in column c, top to bottom.
BoardColumn(b, c) ==
    LET cells == [i \in 1..Len(b) |-> b[i][c]]
        shown == SelectSeq(cells, IsSome)
    IN [k \in 1..Len(shown) |-> Unwrap(shown[k])]

\* C1: every add_task that completes appends exactly one task to the Task Store,
\* after the tasks already there, and gives it the previous length as id; no other
\* operation changes the length. From an empty store, N completed add_task
\* operations therefore leave N tasks, the Nth with id N-1.
C1_AddTaskAppendsWithIdOfLength ==
    [][ pc' # "panicked" =>
          IF last'.op = "add_task"
          THEN /\ Len(tasks') = Len(tasks) + 1
               /\ SubSeq(tasks', 1, Len(tasks)) = tasks
               /\ tasks'[Len(tasks')].id = Len(tasks)
          ELSE Len(tasks') = Len(tasks) ]_vars

\* C1 witness: the second add_task in a row of adds has completed; the store has
\* two tasks and the second has id 1.
C1_Witness ==
    /\ pc = "menu" /\ last.op = "add_task" /\ last.write = "ok"
    /\ Len(tasks) = 2
    /\ \A i \in 1..2 : tasks[i].id = i - 1 /\ tasks[i].status = "Todo"

\* C2 (as claimed): after an add_task whose create_issue answered Ok(n), the task
\* appended and persisted has github_issue_number = Some(n).
C2_IssueNumberStored ==
    (last.op = "add_task" /\ last.remote = "ok" /\ pc = "menu") =>
        /\ tasks[Len(tasks)].github_issue_number = last.issue
        /\ tasks_file = to_string_pretty(tasks)

\* C3: when add_task called create_issue and it failed, the save is still attempted;
\* and once the write is done the task is appended at the end of the Task Store with
\* no issue number, the record on disk holds the whole store, and the process is back
\* at the menu.
C3_RemoteFailureKeepsLocalSave ==
    (last.op = "add_task" /\ last.remote = "err") =>
        /\ last.write # "none"
        /\ last.write = "ok" =>
            /\ pc = "menu"
            /\ Len(tasks) = last.idx
            /\ tasks[last.idx].github_issue_number = None
            /\ tasks_file = to_string_pretty(tasks)

\* C3 witness: a second task was added while create_issue failed.
C3_Witness ==
    /\ last.op = "add_task" /\ last.remote = "err" /\ last.write = "ok"
    /\ Len(tasks) = 2

\* C4 (under SpecBoard): on the board just printed, every task in column c has status Status[c] and
\* column c holds exactly the tasks of that status; the columns are pairwise
\* disjoint; together they hold each task as often as the Task Store does; and each
\* column lists its tasks in the order of the Task Store.
C4_BoardPartitionsTasks ==
    last.op = "show_kanban_board" =>
        LET col(c) == BoardColumn(board, c)
            all == col(1) \o col(2) \o col(3) \o col(4)
        IN /\ \A c \in 1..4 : \A k \in 1..Len(col(c)) : col(c)[k].status = Status[c]
           /\ \A c \in 1..4 : Range(col(c)) = {t \in Range(tasks) : t.status = Status[c]}
           /\ \A c1, c2 \in 1..4 : c1 # c2 => Range(col(c1)) \cap Range(col(c2)) = {}
           /\ \A t \in Range(tasks) \cup Range(all) : Count(all, t) = Count(tasks, t)
           /\ \A c \in 1..4 : \E f \in [1..Len(col(c)) -> 1..Len(tasks)] :
                 /\ \A k \in 1..Len(col(c)) : tasks[f[k]] = col(c)[k]
                 /\ \A j, k \in 1..Len(col(c)) : j < k => f[j] < f[k]

\* C4 witness: the board of a store with statuses Todo, Done, InProgress shows
\* Todo: [task0], InProgress: [task2], NeedsHelp: [], Done: [task1].
C4_Witness ==
    /\ last.op = "show_kanban_board"
    /\ Len(tasks) = 3
    /\ tasks[1].status = "Todo" /\ tasks[2].status = "Done" /\ tasks[3].status = "InProgress"
    /\ BoardColumn(board, 1) = <<tasks[1]>>
    /\ BoardColumn(board, 2) = <<tasks[3]>>
    /\ BoardColumn(board, 3) = <<>>
    /\ BoardColumn(board, 4) = <<tasks[2]>>

\* C5: when add_repository (from the menu, or called by select_repository) had a
\* client and the verification failed, the Configuration (repository list and
\* token) and config.json are unchanged; in first_time_setup, where the token is
\* set and saved before add_repository is called, the repository list is unchanged
\* and config.json holds the Configuration with the token.
C5_FailedVerificationAddsNothing ==
    [][ last'.remote = "err" =>
          /\ last'.op \in {"add_repository", "select_repository"} =>
                (config' = config /\ config_file' = config_file)
          /\ last'.op = "first_time_setup" =>
                /\ config'.repositories = config.repositories
                /\ config_file' = to_string_pretty(config') ]_vars

\* C5 witness: the menu's add_repository ran with a client and the verification failed.
C5_Witness ==
    /\ last.op = "add_repository" /\ last.remote = "err"
    /\ IsSome(github) /\ pc = "menu"

\* C6: while the process runs, the repository list changes only in add_repository
\* (from the menu, first_time_setup or select_repository), only with a client and a
\* successful verification, and only by one entry appended at the end; with no
\* client the menu's add_repository leaves the list as it is.
C6_RepositoriesGrowOnlyByVerifiedAdd ==
    [][ pc' # "panicked" =>
          /\ config'.repositories # config.repositories =>
                /\ last'.op \in {"add_repository", "first_time_setup", "select_repository"}
                /\ last'.remote = "ok"
                /\ IsSome(github')
                /\ \E r \in RepoInputs : config'.repositories = Append(config.repositories, r)
          /\ (last'.op = "add_repository" /\ ~IsSome(github)) =>
                config'.repositories = config.repositories ]_vars

\* C6 witness: the menu's add_repository appended a verified repository after the
\* one the Configuration already had.
C6_Witness ==
    /\ last.op = "add_repository" /\ last.remote = "ok" /\ last.write = "ok"
    /\ pc = "menu" /\ Len(config.repositories) = 2
    /\ config.repositories[1] # config.repositories[2]

\* C7 (as claimed): after a failed write in add_task, update_task or add_repository
\* the process is still in its menu loop.
C7_LoopSurvivesFailedSave ==
    (last.op \in {"add_task", "update_task", "add_repository"} /\ WriteFailed(last.write)) =>
        pc = "menu"

\* C7 (amended): a failed write in add_task, update_task or add_repository panics:
\* the process ends, no operation follows, and each record on disk keeps its
\* previous content or is left truncated, so the change is not persisted.
C7_FailedSavePanics ==
    /\ [][ (last'.op \in {"add_task", "update_task", "add_repository"}
            /\ WriteFailed(last'.write)) =>
              /\ pc' = "panicked"
              /\ tasks_file' \in {tasks_file, CorruptTasksFile}
              /\ config_file' \in {config_file, CorruptConfigFile} ]_vars
    /\ [][ pc = "panicked" => UNCHANGED vars ]_vars

\* C7 witness: update_task failed to write and the process has panicked.
C7_Witness ==
    /\ last.op = "update_task" /\ last.write = "err"
    /\ pc = "panicked"

\* C8: an update_task that completes right after a completed update_task of the same
\* position and the same status changes neither the Task Store nor tasks.json.
C8_UpdateStatusIdempotent ==
    [][ ( /\ last.op = "update_task" /\ last.write = "ok"
          /\ last'.op = "update_task" /\ last'.write = "ok"
          /\ last'.idx = last.idx /\ last'.choice = last.choice ) =>
            (tasks' = tasks /\ tasks_file' = tasks_file) ]_vars

\* C8 witness: update_task has set the second task to NeedsHelp, and the same update
\* can be applied again.
C8_Witness ==
    /\ pc = "menu" /\ last.op = "update_task" /\ last.write = "ok"
    /\ last.idx = 2 /\ last.choice = 2 /\ tasks[2].status = "NeedsHelp"
    /\ ENABLED (UpdateTask /\ last' = last)

\* update_task completes, acting on position p and leaving it with status s.
UpdateTaskTo(p, s) ==
    UpdateTask /\ pc' = "menu" /\ last'.idx = p /\ tasks'[p].status = s

\* C9: at the menu, update_task can move every task to each of the four statuses,
\* whatever its status is; a task that add_task appends has status Todo; and the
\* status of a task changes only in an update_task on its position.
C9_StatusMachine ==
    /\ [](pc = "menu" =>
            \A p \in 1..Len(tasks) : \A s \in StatusSet : ENABLED UpdateTaskTo(p, s))
    /\ [][ pc' # "panicked" =>
             /\ Len(tasks') > Len(tasks) => tasks'[Len(tasks')].status = "Todo"
             /\ \A i \in 1..Len(tasks) :
                   (i <= Len(tasks') /\ tasks'[i].status # tasks[i].status) =>
                       (last'.op = "update_task" /\ last'.idx = i) ]_vars

\* C9 witness: a store holding a NeedsHelp and a Done task, the Done one just moved
\* there by update_task, and able to go back to Todo.
C9_Witness ==
    /\ pc = "menu" /\ last.op = "update_task" /\ last.choice = 3
    /\ Len(tasks) = 2
    /\ tasks[1].status = "NeedsHelp"
    /\ tasks[2].status = "Done" /\ last.idx = 2
    /\ ENABLED UpdateTaskTo(2, "Todo")

ReadOnlyOps ==
    {"list_tasks", "show_kanban_board", "open_project_in_browser", "create_github_project"}

\* C10: list_tasks, show_kanban_board, open_project_in_browser and
\* create_github_project (whatever GitHub answers) leave the Task Store, the
\* Configuration, the current repository and both records on disk unchanged.
C10_ReadOnlyOperationsChangeNothing ==
    [][ last'.op \in ReadOnlyOps =>
          UNCHANGED <<tasks, config, current_repo, tasks_file, config_file>> ]_vars

\* C10 witness: create_github_project ran against a selected repository and failed,
\* with tasks in the store.
C10_Witness ==
    /\ last.op = "create_github_project" /\ last.remote = "err"
    /\ IsSome(current_repo) /\ tasks # <<>>

\* C11 (as claimed): whenever add_task or update_task has returned to the menu,
\* reading tasks.json gives back the Task Store in memory (a missing record reads
\* as the empty store).
C11_TaskRecordEqualsStoreOnReturn ==
    (last.op \in {"add_task", "update_task"} /\ pc = "menu") =>
        load_tasks(tasks_file) = [result |-> "Ok", tasks |-> tasks]

\* C11 (amended): whenever add_task, or an update_task that found a task to update,
\* has returned to the menu, its write was done and tasks.json holds the whole Task
\* Store in memory, task for task and field for field; an update_task on an empty
\* store writes nothing and leaves tasks.json as it was.
C11_TaskRecordEqualsStoreAfterSave ==
    /\ []( (last.op \in {"add_task", "update_task"} /\ pc = "menu" /\ last.idx # 0) =>
              /\ last.write = "ok"
              /\ tasks # <<>>
              /\ tasks_file = to_string_pretty(tasks) )
    /\ [][ (last'.op = "update_task" /\ tasks = <<>>) =>
              (last'.write = "none" /\ tasks_file' = tasks_file /\ tasks' = <<>>) ]_vars

\* C11 witness: update_task has set the second of two tasks to Done and the record
\* holds both tasks as they are in memory.
C11_Witness ==
    /\ pc = "menu" /\ last.op = "update_task" /\ last.idx = 2 /\ last.write = "ok"
    /\ Len(tasks) = 2 /\ tasks[1].status = "Todo" /\ tasks[2].status = "Done"
    /\ tasks_file = to_string_pretty(tasks)

\* C12: while the process runs (so every write it made was done), config.json
\* holds the Configuration in memory: at the menu, and already when first_time_setup
\* and the startup's select_repository begin, so the token and every appended
\* repository were written before the operation that set them returned; and when
\* startup found no config.json and wrote one, it holds the empty defaults.
C12_ConfigRecordEqualsConfig ==
    /\ pc # "panicked" => config_file = to_string_pretty(config)
    /\ (last.op = "new" /\ last.write = "ok") =>
          /\ config = DefaultConfig
          /\ config_file = to_string_pretty(DefaultConfig)
          /\ pc = "first_time_setup"

\* C12 witness: at the menu, add_repository has just appended a second repository,
\* and config.json holds the token and both repositories as they are in memory.
C12_Witness ==
    /\ pc = "menu" /\ last.op = "add_repository" /\ last.write = "ok"
    /\ config.github_token = Some("ghp_token")
    /\ Len(config.repositories) = 2
    /\ config_file = to_string_pretty(config)
    /\ config_file.data.repositories[2].name = "notes"

\* C13: when startup finds tasks.json unparseable or missing (and config.json in
\* order), the process does not end and the Task Store in memory is empty; the store
\* stays empty for as long as the record stays unparseable or missing; and the next
\* add_task whose write is done holds one task with id 0 and replaces the record by
\* the store.
C13_UnparseableTasksStartEmpty ==
    /\ []( (last.op = "new" /\ tasks_file.state \in {"corrupt", "missing"}
                             /\ config_file.state = "json") =>
              (pc # "panicked" /\ tasks = <<>>) )
    /\ []( (pc # "panicked" /\ tasks_file.state \in {"corrupt", "missing"}) => tasks = <<>> )
    /\ [][ ( /\ tasks_file.state \in {"corrupt", "missing"}
              /\ last'.op = "add_task" /\ last'.write = "ok" ) =>
                /\ pc' = "menu"
                /\ Len(tasks') = 1 /\ tasks'[1].id = 0
                /\ tasks_file' = to_string_pretty(tasks') ]_vars

\* C13 witness: at the menu with tasks.json still unparseable and an empty store,
\* where add_task can add the task with id 0 and overwrite the record.
C13_Witness ==
    /\ pc = "menu" /\ tasks_file = CorruptTasksFile /\ tasks = <<>>
    /\ ENABLED (AddTask /\ tasks'[1].id = 0 /\ tasks_file' = to_string_pretty(tasks'))

\* C14: an add_task sends create_issue at most once, whatever the answer; it sends
\* it only with a client, a current repository and the answer Yes to "Create GitHub
\* issue?"; and with no client or no current repository it sends nothing and the
\* task it appends has no issue number.
C14_CreateIssueAtMostOnceAndGuarded ==
    [][ last'.op = "add_task" =>
          /\ last'.calls \in {0, 1}
          /\ last'.calls = 1 =>
                (IsSome(github) /\ IsSome(current_repo) /\ last'.choice = 0)
          /\ last'.remote = "err" => last'.calls = 1
          /\ ~(IsSome(github) /\ IsSome(current_repo)) =>
                /\ last'.calls = 0 /\ last'.remote = "none"
                /\ pc' # "panicked" =>
                      tasks'[Len(tasks')].github_issue_number = None ]_vars

\* C14 witness: add_task sent create_issue once, it failed, and the task was added
\* without another attempt.
C14_Witness ==
    /\ pc = "menu" /\ last.op = "add_task" /\ last.choice = 0
    /\ last.remote = "err" /\ last.calls = 1
    /\ IsSome(github) /\ IsSome(current_repo) /\ tasks # <<>>

\* C15 (as claimed): when the select_repository of startup hands over to the menu,
\* the Configuration either has no repository or one of them is selected.
C15_StartupSelectsRepository ==
    [][ (pc = "select_repository" /\ pc' = "menu") =>
          (config'.repositories # <<>> => IsSome(current_repo')) ]_vars

\* C16: an update_task on position p that completes leaves the Task Store with the
\* same length, every task at another position as it was, and the task at p as it
\* was in every field but status (id, title, description, priority, due date, issue
\* number and created_at unchanged); on an empty store update_task changes neither
\* the store nor tasks.json and writes nothing.
C16_UpdateChangesOnlyStatusAtPosition ==
    [][ (last'.op = "update_task" /\ pc' # "panicked") =>
          IF tasks = <<>>
          THEN tasks' = tasks /\ tasks_file' = tasks_file /\ last'.write = "none"
          ELSE LET p == last'.idx IN
               /\ p \in 1..Len(tasks)
               /\ Len(tasks') = Len(tasks)
               /\ \A i \in 1..Len(tasks) : i # p => tasks'[i] = tasks[i]
               /\ tasks'[p] = [tasks[p] EXCEPT !.status = tasks'[p].status]
               /\ tasks'[p].status = StatusOfIdx(last'.choice) ]_vars

\* C16 witness: update_task has moved the first of two tasks to InProgress; the
\* second is still as add_task made it.
C16_Witness ==
    /\ pc = "menu" /\ last.op = "update_task" /\ last.idx = 1 /\ last.choice = 1
    /\ Len(tasks) = 2
    /\ tasks[1].status = "InProgress" /\ tasks[1].id = 0
    /\ tasks[2] = NewTask(<<tasks[1]>>, [title |-> "Write spec", description |-> "",
                                         priority_idx |-> 1, due_date |-> "tomorrow"],
                          "November 05, 2026")

\* C17: in every state of a session (one that started with an empty Task Store, or
\* with a store an earlier session wrote), the task at position i, counted from 0,
\* has id i, so ids are pairwise distinct; and while the process runs no operation
\* removes or moves a task or changes its id: the store before the step is, status
\* apart, a prefix of the store after it.
C17_IdIsPosition ==
    /\ [](\A i \in 1..Len(tasks) : tasks[i].id = i - 1)
    /\ [](\A j, k \in 1..Len(tasks) : j # k => tasks[j].id # tasks[k].id)
    /\ [][ pc' # "panicked" =>
              /\ Len(tasks') >= Len(tasks)
              /\ \A i \in 1..Len(tasks) :
                    [tasks'[i] EXCEPT !.status = "Todo"] = [tasks[i] EXCEPT !.status = "Todo"]
          ]_vars

\* C17 witness: after add_task, update_task on the first task and a switch of
\* repository, the store holds two tasks with ids 0 and 1, as saved.
C17_Witness ==
    /\ pc = "menu" /\ last.op = "select_repository" /\ IsSome(current_repo)
    /\ tasks_file.state = "json" /\ tasks_file.data = tasks
    /\ Len(tasks) = 2 /\ tasks[1].id = 0 /\ tasks[2].id = 1
    /\ tasks[1].status = "NeedsHelp" /\ tasks[2].status = "Todo"

\* C18: a selected repository is always equal to an entry of the Configuration's
\* repository list; a select_repository that finds the list non-empty sets the
\* selection to the entry chosen, and one that finds it empty leaves the selection
\* as it was.
C18_SelectionIsAConfiguredRepository ==
    /\ [](IsSome(current_repo) => Unwrap(current_repo) \in Range(config.repositories))
    /\ [][ (last'.op = "select_repository" /\ pc' # "panicked") =>
              IF config.repositories # <<>>
              THEN /\ last'.idx \in 1..Len(config.repositories)
                   /\ current_repo' = Some(config.repositories[last'.idx])
                   /\ config' = config
              ELSE current_repo' = current_repo ]_vars

\* C18 witness: "Switch repository" at the menu chose the second of two different
\* repositories, and it is the one selected.
C18_Witness ==
    /\ pc = "menu" /\ last.op = "select_repository" /\ last.idx = 2
    /\ Len(config.repositories) = 2
    /\ config.repositories[1] # config.repositories[2]
    /\ current_repo = Some(config.repositories[2])

====
